---- MODULE Spec2Model ----
(***************************************************************************)
(* DQ rule derivation workflow (src/src/workflow), the rule proposer       *)
(* adapter (src/src/agents/rule_derivation_agent.py), the rule validation  *)
(* engine (src/src/agents/rule_validation_agent.py) and the refiner        *)
(* (refine_rules_node).                                                    *)
(*                                                                         *)
(* Numbers: percentages are integers in hundredths of a percent (5.0% is   *)
(* 500), confidence scores are integers in hundredths (0.8 is 80).         *)
(* Strings that the code takes apart (rule ids, rule expressions) are      *)
(* sequences of tokens.                                                    *)
(***************************************************************************)
EXTENDS Integers, Sequences, FiniteSets, TLC

VARIABLES
    pc,                     \* the graph node about to run
    max_iterations,         \* Settings.max_iterations
    profiling_stats,        \* AgentState.profiling_stats: attribute -> stats
    sample_data,            \* AgentState.sample_data: list of row dicts
    priority_attributes,    \* AgentState.dataset_context['priority_attributes']
    attributes_to_process,  \* AgentState.attributes_to_process
    current_attribute,      \* AgentState.current_attribute
    iteration_count,        \* AgentState.iteration_count
    candidate_rules,        \* AgentState.candidate_rules
    validation_results,     \* AgentState.validation_results
    validated_rules,        \* AgentState.validated_rules
    errors,                 \* AgentState.errors
    agent_sample_data,      \* RuleValidationAgent.sample_data
    response,               \* the proposer's reply handled by the last derive step
    log,                    \* the lines printed on stdout
    attribute_count,        \* DataProfilerAgent.attribute_count
    taxonomy_attributes     \* TaxonomyAttributeFilter._taxonomy_attributes

vars == <<pc, max_iterations, profiling_stats, sample_data, priority_attributes,
          attributes_to_process, current_attribute, iteration_count,
          candidate_rules, validation_results, validated_rules, errors,
          agent_sample_data, response, log, attribute_count, taxonomy_attributes>>

(***************************************************************************)
(* Bounds of the model.                                                    *)
(***************************************************************************)
MaxIterationsCap == 3   \* max_iterations ranges over 0..MaxIterationsCap
MaxRulesPerCall == 2    \* longest array one proposer reply carries
MaxRows == 2            \* longest sample relation handed to the engine alone
MaxCandidates == 3      \* longest candidate list handed to the refiner alone

(***************************************************************************)
(* Program constants.                                                      *)
(***************************************************************************)
DEFAULT_ATTRIBUTE_COUNT == 15
DefaultThresholdPercent == 500
DefaultConfidenceScore == 80
MaxThresholdPercent == 10000
MaxConfidenceScore == 100
SampleFailureCap == 5

None == "None"

Min(a, b) == IF a <= b THEN a ELSE b
Max(a, b) == IF a >= b THEN a ELSE b

\* round(n / d) to the nearest integer, d > 0 (no tie occurs within the bounds)
RoundDiv(n, d) == (2 * n + d) \div (2 * d)

(***************************************************************************)
(* Values as the external collaborators supply them.                       *)
(*                                                                         *)
(* A JSON value of the proposer's reply: k is its kind ("absent" when the  *)
(* key is missing), n its number, s its text, l its list of strings or,    *)
(* for text the code takes apart, its tokens.                              *)
(***************************************************************************)
JAbsent == [k |-> "absent", n |-> 0, s |-> "", l |-> <<>>]
JNull == [k |-> "null", n |-> 0, s |-> "", l |-> <<>>]
JOther == [k |-> "other", n |-> 0, s |-> "", l |-> <<>>]
JNum(n) == [k |-> "num", n |-> n, s |-> "", l |-> <<>>]
JStr(s) == [k |-> "str", n |-> 0, s |-> s, l |-> <<>>]
JToks(l) == [k |-> "str", n |-> 0, s |-> "", l |-> l]
JList(l) == [k |-> "list", n |-> 0, s |-> "", l |-> l]

\* float(text) of the numerals the model uses; other text raises ValueError
NumeralValue ==
    ("0" :> 0) @@ ("5" :> 5) @@ ("6" :> 6) @@ ("7" :> 7) @@ ("800" :> 800) @@ ("801" :> 801)

IsNumeral(t) == t \in DOMAIN NumeralValue

\* re.sub(r'[^a-zA-Z0-9]', '_', attribute_name).upper()
AttrClean(attribute_name) ==
    CASE attribute_name = "sku" -> "SKU"
      [] attribute_name = "price" -> "PRICE"
      [] attribute_name = "colour" -> "COLOUR"
      [] OTHER -> "X"

\* category[:3].upper()
Category3(category) ==
    CASE category = "Validity" -> "VAL"
      [] category = "VALIDITY" -> "VAL"
      [] category = "Completeness" -> "COM"
      [] category = "Uniqueness" -> "UNI"
      [] OTHER -> "CUS"

\* f"{n:03d}"
Pad3(n) ==
    IF n < 10 THEN "00" \o ToString(n)
    ELSE IF n < 100 THEN "0" \o ToString(n)
    ELSE ToString(n)

\* list.index(x): the first position of x in s, 0 when absent (ValueError)
RECURSIVE IndexFrom(_, _, _)
IndexFrom(s, x, i) ==
    IF i > Len(s) THEN 0
    ELSE IF s[i] = x THEN i
    ELSE IndexFrom(s, x, i + 1)

IndexOf(s, x) == IndexFrom(s, x, 1)

(***************************************************************************)
(* Rule proposer adapter: RuleDerivationAgent.                             *)
(*                                                                         *)
(* A raw rule object is a record of JSON values, one per key the adapter   *)
(* reads.  A DQRule is the record the adapter builds from it.              *)
(***************************************************************************)
RuleKeys ==
    {"rule_id", "attribute_name", "rule_category", "rule_type", "rule_expression",
     "rule_expression_python", "severity", "threshold_percent", "derived_from",
     "confidence_score", "sample_valid_values"}

\* the table `defaults` of _ensure_rule_fields
RuleDefaults(attribute_name) ==
    [rule_id |-> JAbsent,
     attribute_name |-> JStr(attribute_name),
     rule_category |-> JStr("Validity"),
     rule_type |-> JStr("CUSTOM"),
     rule_expression |-> JToks(<<attribute_name, "validation">>),
     rule_expression_python |-> JStr("isna"),
     severity |-> JStr("Medium"),
     threshold_percent |-> JNum(DefaultThresholdPercent),
     derived_from |-> JStr("profiling analysis"),
     confidence_score |-> JNum(DefaultConfidenceScore),
     sample_valid_values |-> JList(<<>>)]

\* float(text) for a threshold_percent given as text: its value, or -1 on ValueError
ThresholdOfText(s) ==
    CASE s = "150" -> 15000
      [] s = "2.5" -> 250
      [] OTHER -> -1

\* float(text) for a confidence_score given as text: its value, or -1 on ValueError
ConfidenceOfText(s) ==
    CASE s = "0.9" -> 90
      [] s = "7" -> 700
      [] OTHER -> -1

\* lines 158-166: the rule id, synthesized when the key is missing, DQ_ forced in front
EnsureRuleId(raw, attribute_name, index) ==
    LET category == IF raw.rule_category.k = "absent" THEN "VALIDITY" ELSE raw.rule_category.s
        withId == IF raw.rule_id.k = "absent"
                  THEN JToks(<<"DQ", AttrClean(attribute_name), Category3(category), Pad3(index + 1)>>)
                  ELSE raw.rule_id
    IN  IF withId.l # <<>> /\ Head(withId.l) = "DQ"
        THEN withId
        ELSE JToks(<<"DQ">> \o withId.l)

\* whether lines 158-166 raise: slicing a category that is no text, or
\* startswith on a rule id that is no text
EnsureRuleIdRaises(raw) ==
    \/ raw.rule_id.k = "absent" /\ raw.rule_category.k \notin {"absent", "str"}
    \/ raw.rule_id.k \notin {"absent", "str"}

\* lines 185-187: a missing or null key takes its default
WithDefaults(raw, attribute_name) ==
    [f \in RuleKeys |->
        IF raw[f].k \in {"absent", "null"} THEN RuleDefaults(attribute_name)[f] ELSE raw[f]]

\* an adapter that converts the threshold but forgets to clamp it
EnsureThresholdUnclamped(v) ==
    IF v.k = "str"
    THEN (IF ThresholdOfText(v.s) >= 0 THEN ThresholdOfText(v.s) ELSE DefaultThresholdPercent)
    ELSE v.n

\* lines 189-194 and 204: text to float, 5.0 on ValueError, then clamped into 0..100
EnsureThreshold(v) ==
    LET num == IF v.k = "str"
               THEN (IF ThresholdOfText(v.s) >= 0 THEN ThresholdOfText(v.s) ELSE DefaultThresholdPercent)
               ELSE v.n
    IN  Max(0, Min(MaxThresholdPercent, num))

\* lines 196-203: text to float, 0.8 on ValueError, then clamped into 0..1
EnsureConfidence(v) ==
    LET num == IF v.k = "str"
               THEN (IF ConfidenceOfText(v.s) >= 0 THEN ConfidenceOfText(v.s) ELSE DefaultConfidenceScore)
               ELSE v.n
    IN  Max(0, Min(MaxConfidenceScore, num))

\* whether max(0.0, min(hi, v)) raises TypeError: v is neither a number nor text
ClampRaises(v) == v.k \notin {"num", "str"}

\* lines 206-218: a value list that is no list becomes the empty list
EnsureList(v) == IF v.k = "list" THEN v.l ELSE <<>>

\* whether DQRule(**rule_data) raises: a text field that holds no text
DQRuleRaises(data) ==
    \E f \in {"attribute_name", "rule_category", "rule_type", "rule_expression",
              "rule_expression_python", "severity", "derived_from"} : data[f].k # "str"

\* _ensure_rule_fields followed by DQRule(**rule_data), for one element of the array:
\* ok is FALSE when either raises
BuildRule(raw, attribute_name, index) ==
    LET data == WithDefaults(raw, attribute_name)
        raises == \/ EnsureRuleIdRaises(raw)
                  \/ ClampRaises(data.threshold_percent)
                  \/ ClampRaises(data.confidence_score)
                  \/ DQRuleRaises(data)
    IN  [ok |-> ~raises,
         rule |-> [rule_id |-> EnsureRuleId(raw, attribute_name, index).l,
                   attribute_name |-> data.attribute_name.s,
                   rule_category |-> data.rule_category.s,
                   rule_type |-> data.rule_type.s,
                   rule_expression |-> data.rule_expression.l,
                   rule_expression_python |-> data.rule_expression_python.s,
                   severity |-> data.severity.s,
                   threshold_percent |-> EnsureThreshold(data.threshold_percent),
                   derived_from |-> <<data.derived_from.s>>,
                   confidence_score |-> EnsureConfidence(data.confidence_score),
                   sample_valid_values |-> EnsureList(data.sample_valid_values)]]

\* an adapter whose loop stops at the first element that fails to build
RECURSIVE ParseRulesAborting(_, _, _)
ParseRulesAborting(rules_data, attribute_name, i) ==
    IF i > Len(rules_data) THEN <<>>
    ELSE LET built == BuildRule(rules_data[i], attribute_name, i - 1)
         IN  IF built.ok
             THEN <<built.rule>> \o ParseRulesAborting(rules_data, attribute_name, i + 1)
             ELSE <<>>

\* lines 128-139: the elements that build, in order; a failing element is skipped
RECURSIVE ParseRulesFrom(_, _, _)
ParseRulesFrom(rules_data, attribute_name, i) ==
    IF i > Len(rules_data) THEN <<>>
    ELSE LET built == BuildRule(rules_data[i], attribute_name, i - 1)
         IN  (IF built.ok THEN <<built.rule>> ELSE <<>>)
                 \o ParseRulesFrom(rules_data, attribute_name, i + 1)

\* _parse_rules_from_response: reply.kind is "no_array" (no [...] in the text),
\* "bad_json" (json.loads raises) or "array" (reply.array holds the raw objects)
ParseRulesFromResponse(reply, attribute_name) ==
    IF reply.kind = "array"
    THEN ParseRulesFrom(reply.array, attribute_name, 1)
    ELSE <<>>

\* derive_rules_for_attribute: reply.kind "invoke_raises" is llm.invoke raising;
\* the except clause turns it into the empty list
derive_rules_for_attribute(reply, attribute_name) ==
    IF reply.kind = "invoke_raises"
    THEN <<>>
    ELSE ParseRulesFromResponse(reply, attribute_name)

(***************************************************************************)
(* Rule validation engine: RuleValidationAgent.                            *)
(*                                                                         *)
(* A cell is null, a number, text or an unhashable object (a list).  A     *)
(* frame (pandas DataFrame) has column labels and rows; int_labels says    *)
(* that its column labels are integers (a transposed frame).               *)
(***************************************************************************)
CNull == [t |-> "null", n |-> 0, s |-> ""]
CList == [t |-> "list", n |-> 0, s |-> ""]
CNum(n) == [t |-> "num", n |-> n, s |-> ""]
CStr(s) == [t |-> "str", n |-> 0, s |-> s]

Frame(columns, rows) == [columns |-> columns, rows |-> rows, int_labels |-> FALSE]

\* pd.DataFrame(): no columns, no rows
EmptyFrame == Frame({}, <<>>)

\* pd.DataFrame(sample_data) of a list of row dicts
DataFrameOf(records) ==
    IF records = <<>> THEN EmptyFrame ELSE Frame(DOMAIN records[1], records)

\* Series.isna() of one cell
IsNa(cell) == cell.t = "null"

\* Series.astype(str) of one cell
AsStr(cell) ==
    CASE cell.t = "null" -> "nan"
      [] cell.t = "num" -> ToString(cell.n)
      [] cell.t = "list" -> "[]"
      [] OTHER -> cell.s

\* str.strip()
Strip(s) == IF s \in {" ", "  "} THEN "" ELSE s

\* pd.to_numeric(errors='coerce') of one cell: nan is TRUE for NaN
ToNumeric(cell) ==
    CASE cell.t = "num" -> [nan |-> FALSE, n |-> cell.n]
      [] cell.t = "str" /\ IsNumeral(cell.s) -> [nan |-> FALSE, n |-> NumeralValue[cell.s]]
      [] OTHER -> [nan |-> TRUE, n |-> 0]

\* df[mask]: the rows of df at which Keep holds, in order
RECURSIVE RowsWhere(_, _, _)
RowsWhere(rows, keep, i) ==
    IF i > Len(rows) THEN <<>>
    ELSE (IF i \in keep THEN <<rows[i]>> ELSE <<>>) \o RowsWhere(rows, keep, i + 1)

Filter(df, keep) == Frame(df.columns, RowsWhere(df.rows, keep, 1))

\* the first position at or after i where Match holds, 0 when there is none
RECURSIVE FirstPos(_, _)
FirstPos(hits, i) ==
    IF hits = {} THEN 0
    ELSE IF i \in hits THEN i
    ELSE FirstPos(hits, i + 1)

Upper(t) ==
    CASE t = "between" -> "BETWEEN"
      [] t = "and" -> "AND"
      [] t = "in" -> "IN"
      [] t = "length" -> "LENGTH"
      [] t = "matches" -> "MATCHES"
      [] t = "regexp" -> "REGEXP"
      [] OTHER -> t

\* the quoted tokens of the model and the text between their quotes
QuotedText ==
    ("'A'" :> "A") @@ ("'B'" :> "B") @@ ("'^[A-Z]+$'" :> "^[A-Z]+$") @@ ("'['" :> "[")

\* _extract_value_set
RECURSIVE InListValues(_, _)
InListValues(toks, i) ==
    IF i > Len(toks) \/ toks[i] = ")" THEN <<>>
    ELSE (IF toks[i] \in DOMAIN QuotedText THEN <<QuotedText[toks[i]]>>
          ELSE IF IsNumeral(toks[i]) THEN <<toks[i]>>
          ELSE <<>>) \o InListValues(toks, i + 1)

ExtractValueSet(rule) ==
    IF rule.sample_valid_values # <<>> THEN rule.sample_valid_values
    ELSE LET toks == rule.rule_expression
             at == FirstPos({i \in 1..(Len(toks) - 3) :
                                /\ Upper(toks[i]) = "IN"
                                /\ toks[i + 1] = "("
                                /\ toks[i + 2] # ")"
                                /\ \E j \in (i + 3)..Len(toks) : toks[j] = ")"}, 1)
         IN  IF at = 0 THEN <<>> ELSE InListValues(toks, at + 2)

\* _extract_range: has_min and has_max say which bound is not None
ExtractRange(rule) ==
    LET toks == rule.rule_expression
        between == FirstPos({i \in 1..(Len(toks) - 3) :
                                /\ Upper(toks[i]) = "BETWEEN"
                                /\ IsNumeral(toks[i + 1])
                                /\ Upper(toks[i + 2]) = "AND"
                                /\ IsNumeral(toks[i + 3])}, 1)
        min_match == FirstPos({i \in 1..(Len(toks) - 1) :
                                toks[i] \in {">", ">="} /\ IsNumeral(toks[i + 1])}, 1)
        max_match == FirstPos({i \in 1..(Len(toks) - 1) :
                                toks[i] \in {"<", "<="} /\ IsNumeral(toks[i + 1])}, 1)
    IN  IF between # 0
        THEN [has_min |-> TRUE, min_val |-> NumeralValue[toks[between + 1]],
              has_max |-> TRUE, max_val |-> NumeralValue[toks[between + 3]]]
        ELSE [has_min |-> min_match # 0,
              min_val |-> IF min_match # 0 THEN NumeralValue[toks[min_match + 1]] ELSE 0,
              has_max |-> max_match # 0,
              max_val |-> IF max_match # 0 THEN NumeralValue[toks[max_match + 1]] ELSE 0]

\* _extract_pattern: the pattern text, "" for None
ExtractPattern(rule) ==
    LET toks == rule.rule_expression
        at == FirstPos({i \in 1..(Len(toks) - 1) :
                            /\ Upper(toks[i]) \in {"MATCHES", "REGEXP"}
                            /\ toks[i + 1] \in DOMAIN QuotedText}, 1)
    IN  IF at # 0 THEN QuotedText[toks[at + 1]]
        ELSE IF rule.rule_expression_python = "str.match" THEN "^[A-Z]+$"
        ELSE ""

\* re.compile(pattern) raises re.error
PatternInvalid(pattern) == pattern = "["

\* Series.str.match(pattern) of one text, for the patterns of the model
StrMatch(pattern, s) == pattern = "^[A-Z]+$" /\ s \in {"A", "B", "C", "ABC"}

\* _extract_length_bounds
ExtractLengthBounds(rule) ==
    LET toks == rule.rule_expression
        len_at == FirstPos({i \in 1..Len(toks) : Upper(toks[i]) = "LENGTH"}, 1)
        between == FirstPos({i \in 1..(Len(toks) - 3) :
                                /\ len_at # 0 /\ i > len_at
                                /\ Upper(toks[i]) = "BETWEEN"
                                /\ IsNumeral(toks[i + 1])
                                /\ Upper(toks[i + 2]) = "AND"
                                /\ IsNumeral(toks[i + 3])}, 1)
        min_match == FirstPos({i \in 1..(Len(toks) - 1) :
                                /\ len_at # 0 /\ i > len_at
                                /\ toks[i] \in {">", ">="} /\ IsNumeral(toks[i + 1])}, 1)
        max_match == FirstPos({i \in 1..(Len(toks) - 1) :
                                /\ len_at # 0 /\ i > len_at
                                /\ toks[i] \in {"<", "<="} /\ IsNumeral(toks[i + 1])}, 1)
    IN  IF between # 0
        THEN [has_min |-> TRUE, min_val |-> NumeralValue[toks[between + 1]],
              has_max |-> TRUE, max_val |-> NumeralValue[toks[between + 3]]]
        ELSE [has_min |-> min_match # 0,
              min_val |-> IF min_match # 0 THEN NumeralValue[toks[min_match + 1]] ELSE 0,
              has_max |-> max_match # 0,
              max_val |-> IF max_match # 0 THEN NumeralValue[toks[max_match + 1]] ELSE 0]

\* _extract_expected_type
ExtractExpectedType(rule) ==
    LET toks == rule.rule_expression
    IN  IF \E i \in 1..Len(toks) : toks[i] \in {"numeric", "NUMERIC", "number"} THEN "numeric"
        ELSE IF \E i \in 1..Len(toks) : toks[i] \in {"date", "DATE"} THEN "date"
        ELSE "string"

\* Series.str.len() of one text, for the texts of the model
StrLen(s) == Len(s)

\* the rows whose value under attr occurs more than once: duplicated(keep=False)
DuplicatedRows(df, attr) ==
    {i \in 1..Len(df.rows) :
        \E j \in 1..Len(df.rows) : j # i /\ df.rows[j][attr] = df.rows[i][attr]}

\* Series.isin(values) of one cell: a cell equals a listed text only if it is that text
IsIn(cell, values) == cell.t = "str" /\ \E i \in 1..Len(values) : values[i] = cell.s

\* whether hashing the column raises TypeError (an unhashable cell)
Unhashable(df, attr) == \E i \in 1..Len(df.rows) : df.rows[i][attr].t = "list"

\* eval(rule.rule_expression_python, ...) for the scripts of the model:
\* kind "raise" (the expression raises), "value" (no DataFrame) or "frame"
EvalScript(script, df, attr) ==
    CASE script = "isna" ->
            [kind |-> "frame",
             frame |-> Filter(df, {i \in 1..Len(df.rows) : IsNa(df.rows[i][attr])})]
      [] script = "pd.concat([df, df])" ->
            [kind |-> "frame", frame |-> Frame(df.columns, df.rows \o df.rows)]
      [] script = "df.T" ->
            [kind |-> "frame",
             frame |-> [columns |-> {}, int_labels |-> df.rows # <<>>,
                        rows |-> [i \in 1..Cardinality(df.columns) |-> <<>>]]]
      [] script = "len(df)" -> [kind |-> "raise", frame |-> EmptyFrame]
      [] OTHER -> [kind |-> "value", frame |-> EmptyFrame]

\* the rule-type branches of _execute_python_rule (lines 107-164), with the
\* attribute known to be a column: raised is TRUE when the branch raises
ExecuteBranch(rule, df) ==
    LET attr == rule.attribute_name
        n == Len(df.rows)
        cell(i) == df.rows[i][attr]
        ok(frame) == [raised |-> FALSE, frame |-> frame]
        raise == [raised |-> TRUE, frame |-> EmptyFrame]
    IN  CASE rule.rule_type = "NOT_NULL" ->
                ok(Filter(df, {i \in 1..n : IsNa(cell(i))}))
          [] rule.rule_type = "NOT_EMPTY" ->
                ok(Filter(df, {i \in 1..n : IsNa(cell(i)) \/ Strip(AsStr(cell(i))) = ""}))
          [] rule.rule_type = "VALUE_SET" ->
                LET valid_values == ExtractValueSet(rule)
                IN  IF valid_values = <<>> THEN ok(EmptyFrame)
                    ELSE IF Unhashable(df, attr) THEN raise
                    ELSE ok(Filter(df, {i \in 1..n :
                                ~IsIn(cell(i), valid_values) /\ ~IsNa(cell(i))}))
          [] rule.rule_type = "RANGE" ->
                LET r == ExtractRange(rule)
                IN  IF r.has_min /\ r.has_max
                    THEN ok(Filter(df, {i \in 1..n :
                                /\ ~ToNumeric(cell(i)).nan
                                /\ \/ ToNumeric(cell(i)).n < r.min_val
                                   \/ ToNumeric(cell(i)).n > r.max_val}))
                    ELSE ok(EmptyFrame)
          [] rule.rule_type = "PRIMARY_KEY" ->
                IF Unhashable(df, attr) THEN raise
                ELSE ok(Filter(df, DuplicatedRows(df, attr)))
          [] rule.rule_type = "FORMAT_PATTERN" ->
                LET pattern == ExtractPattern(rule)
                IN  IF pattern = "" \/ PatternInvalid(pattern) THEN ok(EmptyFrame)
                    ELSE ok(Filter(df, {i \in 1..n : ~StrMatch(pattern, AsStr(cell(i)))}))
          [] rule.rule_type = "LENGTH" ->
                LET b == ExtractLengthBounds(rule)
                    str_len(i) == StrLen(AsStr(cell(i)))
                IN  ok(Filter(df, {i \in 1..n :
                            /\ \/ b.has_min /\ str_len(i) < b.min_val
                               \/ b.has_max /\ str_len(i) > b.max_val
                            /\ ~IsNa(cell(i))}))
          [] rule.rule_type = "DATA_TYPE" ->
                IF ExtractExpectedType(rule) = "numeric"
                THEN ok(Filter(df, {i \in 1..n : ToNumeric(cell(i)).nan /\ ~IsNa(cell(i))}))
                ELSE ok(EmptyFrame)
          [] OTHER ->
                LET result == EvalScript(rule.rule_expression_python, df, attr)
                IN  IF result.kind = "frame" THEN ok(result.frame) ELSE ok(EmptyFrame)

\* an engine that answers an empty frame, not None, for a missing column
ExecuteWithoutNone(rule, df) == [found |-> TRUE, frame |-> EmptyFrame]

\* _execute_python_rule: found is FALSE for the None it returns when the attribute
\* is no column; the except clause of line 166 turns a raising branch into an
\* empty frame
ExecutePythonRule(rule, df) ==
    IF rule.attribute_name \notin df.columns
    THEN [found |-> FALSE, frame |-> EmptyFrame]
    ELSE LET branch == ExecuteBranch(rule, df)
         IN  [found |-> TRUE,
              frame |-> IF branch.raised THEN EmptyFrame ELSE branch.frame]

\* lines 60-68: at most five failing records, cut to the rule's column when the
\* failing frame has it
RECURSIVE SampleFailures(_, _, _)
SampleFailures(failures, attr, i) ==
    IF i > Min(Len(failures.rows), SampleFailureCap) THEN <<>>
    ELSE <<IF attr \in failures.columns
           THEN [k |-> "cell", cell |-> failures.rows[i][attr]]
           ELSE [k |-> "row", cell |-> CNull]>>
         \o SampleFailures(failures, attr, i + 1)

\* whether ValidationResult(...) raises: a record keyed by integer labels is no
\* Dict[str, Any]
ResultRaises(failures) == failures.int_labels /\ failures.rows # <<>>

\* pass_rate of lines 58 and 74, in hundredths of a percent
PassRate(pass_count, total_records) ==
    IF total_records > 0 THEN RoundDiv(pass_count * 10000, total_records) ELSE 0

\* validate_rule
validate_rule(rule, df) ==
    LET executed == ExecutePythonRule(rule, df)
        failures == executed.frame
        total_records == Len(df.rows)
        fail_count == Len(failures.rows)
        pass_count == total_records - fail_count
    IN  IF ~executed.found
        THEN [rule_id |-> rule.rule_id, pass_count |-> total_records, fail_count |-> 0,
              pass_rate |-> 10000,
              sample_failures |-> <<[k |-> "note", cell |-> CNull]>>]
        ELSE IF ResultRaises(failures)
        THEN [rule_id |-> rule.rule_id, pass_count |-> 0, fail_count |-> 0,
              pass_rate |-> 0,
              sample_failures |-> <<[k |-> "error", cell |-> CNull]>>]
        ELSE [rule_id |-> rule.rule_id, pass_count |-> pass_count, fail_count |-> fail_count,
              pass_rate |-> PassRate(pass_count, total_records),
              sample_failures |-> SampleFailures(failures, rule.attribute_name, 1)]

\* validate_all_rules
validate_all_rules(rules, df) == [i \in 1..Len(rules) |-> validate_rule(rules[i], df)]

(***************************************************************************)
(* Refiner: refine_rules_node.                                             *)
(***************************************************************************)
\* {r.rule_id: r for r in validation_results}: the last result of an id wins
RECURSIVE LastResultFrom(_, _, _)
LastResultFrom(results, rule_id, i) ==
    IF i = 0 THEN 0
    ELSE IF results[i].rule_id = rule_id THEN i
    ELSE LastResultFrom(results, rule_id, i - 1)

LastResult(results, rule_id) == LastResultFrom(results, rule_id, Len(results))

\* a refiner that compares with >= where the code compares with >
AdjustThresholdAtEquality(rule, results) ==
    LET at == LastResult(results, rule.rule_id)
        actual_fail_rate == 10000 - results[at].pass_rate
    IN  IF at # 0 /\ 2 * actual_fail_rate >= 3 * rule.threshold_percent
        THEN [rule EXCEPT
                !.threshold_percent =
                    Min(10 * RoundDiv(11 * actual_fail_rate, 100), MaxThresholdPercent),
                !.derived_from = Append(@, " (threshold adjusted)")]
        ELSE rule

\* a refiner that forgets to cap the raised threshold at 100
AdjustThresholdUncapped(rule, results) ==
    LET at == LastResult(results, rule.rule_id)
        actual_fail_rate == 10000 - results[at].pass_rate
    IN  IF at # 0 /\ 2 * actual_fail_rate > 3 * rule.threshold_percent
        THEN [rule EXCEPT
                !.threshold_percent = 10 * RoundDiv(11 * actual_fail_rate, 100),
                !.derived_from = Append(@, " (threshold adjusted)")]
        ELSE rule

\* lines 294-308: the rule appended for a rule that is no duplicate
AdjustThreshold(rule, results) ==
    LET at == LastResult(results, rule.rule_id)
        actual_fail_rate == 10000 - results[at].pass_rate
    IN  IF at # 0 /\ 2 * actual_fail_rate > 3 * rule.threshold_percent
        THEN [rule EXCEPT
                !.threshold_percent =
                    Min(10 * RoundDiv(11 * actual_fail_rate, 100), MaxThresholdPercent),
                !.derived_from = Append(@, " (threshold adjusted)")]
        ELSE rule

\* a refiner that keeps the last rule of an id instead of the first
SeenLater(all_rules, i) ==
    \E j \in (i + 1)..Len(all_rules) : all_rules[j].rule_id = all_rules[i].rule_id

\* lines 289-292: whether the rule at position i repeats the id of an earlier one
SeenBefore(all_rules, i) == \E j \in 1..(i - 1) : all_rules[j].rule_id = all_rules[i].rule_id

\* the loop of lines 288-308
RECURSIVE RefineFrom(_, _, _)
RefineFrom(all_rules, results, i) ==
    IF i > Len(all_rules) THEN <<>>
    ELSE (IF SeenBefore(all_rules, i) THEN <<>>
          ELSE <<AdjustThreshold(all_rules[i], results)>>)
         \o RefineFrom(all_rules, results, i + 1)

RefineRules(all_rules, results) == RefineFrom(all_rules, results, 1)

(***************************************************************************)
(* Attribute prioritizer: DataProfilerAgent and TaxonomyAttributeFilter.   *)
(*                                                                         *)
(* profiling_stats is the ordered dict of the profiling JSON: a sequence   *)
(* of records, one per attribute, in the raw data's order.                 *)
(***************************************************************************)
\* str.lower() of the attribute and display names of the model
Lower(name) ==
    CASE name = "SKU" -> "sku"
      [] name = "Price" -> "price"
      [] name = "Colour" -> "colour"
      [] OTHER -> name

\* ProfilingResult.is_empty
IsEmpty(stats) == stats.datatype = "Empty" \/ stats.missing_percentage >= 100

\* TaxonomyAttributeFilter.is_priority_attribute with case_sensitive=False
IsPriorityAttribute(attribute_name, taxonomy) ==
    Lower(attribute_name) \in {Lower(t) : t \in taxonomy}

\* get_dynamic_priority_attributes: append, then stop once attribute_count are taken
RECURSIVE DynamicFrom(_, _, _, _)
DynamicFrom(stats, i, taken, count) ==
    IF i > Len(stats) THEN <<>>
    ELSE IF IsEmpty(stats[i]) \/ stats[i].missing_percentage >= 100
    THEN DynamicFrom(stats, i + 1, taken, count)
    ELSE <<stats[i].attribute_name>>
         \o (IF taken + 1 >= count THEN <<>>
             ELSE DynamicFrom(stats, i + 1, taken + 1, count))

get_dynamic_priority_attributes(stats, count) ==
    DynamicFrom(stats, 1, 0, count)

\* a filter that applies the limit whatever its sign
RECURSIVE FilteredMatchedAlwaysLimited(_, _, _, _, _)
FilteredMatchedAlwaysLimited(stats, taxonomy, i, taken, max_attrs) ==
    IF i > Len(stats) THEN <<>>
    ELSE IF ~IsPriorityAttribute(stats[i].attribute_name, taxonomy)
            \/ IsEmpty(stats[i]) \/ stats[i].missing_percentage >= 100
    THEN FilteredMatchedAlwaysLimited(stats, taxonomy, i + 1, taken, max_attrs)
    ELSE <<stats[i].attribute_name>>
         \o (IF taken + 1 >= max_attrs THEN <<>>
             ELSE FilteredMatchedAlwaysLimited(stats, taxonomy, i + 1, taken + 1, max_attrs))

\* lines 211-221 of get_taxonomy_filtered_attributes
RECURSIVE FilteredMatchedFrom(_, _, _, _, _)
FilteredMatchedFrom(stats, taxonomy, i, taken, max_attrs) ==
    IF i > Len(stats) THEN <<>>
    ELSE IF ~IsPriorityAttribute(stats[i].attribute_name, taxonomy)
            \/ IsEmpty(stats[i]) \/ stats[i].missing_percentage >= 100
    THEN FilteredMatchedFrom(stats, taxonomy, i + 1, taken, max_attrs)
    ELSE <<stats[i].attribute_name>>
         \o (IF max_attrs > 0 /\ taken + 1 >= max_attrs THEN <<>>
             ELSE FilteredMatchedFrom(stats, taxonomy, i + 1, taken + 1, max_attrs))

\* get_taxonomy_filtered_attributes with limit=None
get_taxonomy_filtered_attributes(stats, taxonomy, count) ==
    LET filtered_matched == FilteredMatchedFrom(stats, taxonomy, 1, 0, count)
    IN  IF filtered_matched # <<>> THEN filtered_matched
        ELSE get_dynamic_priority_attributes(stats, count)

\* profiling_stats.get(attr): the position of the attribute's stats, 0 for None
RECURSIVE StatsIndexFrom(_, _, _)
StatsIndexFrom(stats, attribute_name, i) ==
    IF i > Len(stats) THEN 0
    ELSE IF stats[i].attribute_name = attribute_name THEN i
    ELSE StatsIndexFrom(stats, attribute_name, i + 1)

StatsIndex(stats, attribute_name) == StatsIndexFrom(stats, attribute_name, 1)

\* lines 94-104 of select_priority_attributes_node
RECURSIVE ValidatedFrom(_, _, _)
ValidatedFrom(available_attrs, stats, i) ==
    IF i > Len(available_attrs) THEN <<>>
    ELSE LET at == StatsIndex(stats, available_attrs[i])
         IN  (IF at # 0 /\ stats[at].datatype # "Empty" /\ stats[at].missing_percentage < 100
              THEN <<available_attrs[i]>> ELSE <<>>)
             \o ValidatedFrom(available_attrs, stats, i + 1)

\* lines 94-116 of select_priority_attributes_node
SelectValidatedAttrs(available_attrs, stats) ==
    LET validated_attrs == ValidatedFrom(available_attrs, stats, 1)
    IN  IF validated_attrs # <<>> THEN validated_attrs
        ELSE get_dynamic_priority_attributes(stats, DEFAULT_ATTRIBUTE_COUNT)

(***************************************************************************)
(* What the external collaborators may supply to one run of the workflow.  *)
(***************************************************************************)
Stats(name, datatype, missing) ==
    [attribute_name |-> name, datatype |-> datatype, missing_percentage |-> missing]

\* profiling JSON files
Profiles ==
    {<<Stats("sku", "ID", 0), Stats("price", "Numeric", 0), Stats("colour", "Categorical", 0)>>,
     <<Stats("sku", "ID", 0), Stats("price", "Empty", 0), Stats("colour", "Categorical", 20)>>,
     <<Stats("sku", "ID", 0), Stats("price", "Numeric", 100), Stats("colour", "Empty", 100)>>,
     <<Stats("sku", "Empty", 100), Stats("price", "Empty", 100)>>}

\* DISPLAY NAME sets of the taxonomy schema; the empty set is a schema that is
\* missing or unreadable
Taxonomies == {{}, {"SKU", "Colour"}, {"price", "weight"}}

\* sample relations read from the raw data file, as lists of row dicts; the
\* empty list is a file that is missing, unreadable or has no rows
SampleRecords ==
    {<<>>,
     <<[sku |-> CStr("A"), price |-> CNum(5)], [sku |-> CStr("A"), price |-> CNull]>>}

RawRule ==
    [rule_id |-> JAbsent, attribute_name |-> JAbsent, rule_category |-> JAbsent,
     rule_type |-> JAbsent, rule_expression |-> JAbsent, rule_expression_python |-> JAbsent,
     severity |-> JAbsent, threshold_percent |-> JAbsent, derived_from |-> JAbsent,
     confidence_score |-> JAbsent, sample_valid_values |-> JAbsent]

\* rule objects the proposer writes into its reply
RawObjectList ==
    <<[RawRule EXCEPT !.rule_type = JStr("NOT_NULL"), !.rule_category = JStr("Completeness")],
      [RawRule EXCEPT !.rule_id = JToks(<<"DQ", "SHARED">>), !.rule_type = JStr("PRIMARY_KEY"),
                      !.threshold_percent = JStr("150")],
      [RawRule EXCEPT !.rule_id = JToks(<<"R3">>), !.rule_type = JStr("BUSINESS_RULE"),
                      !.rule_expression_python = JStr("pd.concat([df, df])")]>>

RawObjects == {RawObjectList[i] : i \in 1..Len(RawObjectList)}

RECURSIVE SeqsUpTo(_, _)
SeqsUpTo(S, n) ==
    IF n = 0 THEN {<<>>}
    ELSE LET shorter == SeqsUpTo(S, n - 1)
         IN  shorter \cup {Append(q, x) : q \in {p \in shorter : Len(p) = n - 1}, x \in S}

\* the JSON arrays of a reply: up to MaxRulesPerCall objects, repetitions
\* included, listed in the order of RawObjectList
ReplyArrays ==
    LET picks == {q \in SeqsUpTo(1..Len(RawObjectList), MaxRulesPerCall) :
                    \A i \in 1..Len(q) : \A j \in i..Len(q) : q[i] <= q[j]}
    IN  {[i \in 1..Len(q) |-> RawObjectList[q[i]]] : q \in picks}

Reply(kind, array) == [kind |-> kind, array |-> array]

NoReply == Reply("none", <<>>)

\* what one construction and call of the RuleDerivationAgent may do:
\* "init_error" (RuleDerivationAgent() raises), "invoke_raises" (llm.invoke
\* raises), or a reply text
Replies ==
    {Reply(k, <<>>) : k \in {"init_error", "invoke_raises", "no_array", "bad_json"}}
        \cup {Reply("array", a) : a \in ReplyArrays}

(***************************************************************************)
(* Workflow controller: the graph of build_dq_workflow and its nodes.      *)
(***************************************************************************)
LogLine(ev, attr) == [ev |-> ev, attr |-> attr]

ErrorLine(msg, attr) == [msg |-> msg, attr |-> attr]

\* create_initial_state, with the settings of the run
Init ==
    /\ pc = "load_profiling"
    /\ max_iterations \in 0..MaxIterationsCap
    /\ profiling_stats = <<>>
    /\ sample_data = <<>>
    /\ priority_attributes = <<>>
    /\ attributes_to_process = <<>>
    /\ current_attribute = None
    /\ iteration_count = 0
    /\ candidate_rules = <<>>
    /\ validation_results = <<>>
    /\ validated_rules = <<>>
    /\ errors = <<>>
    /\ agent_sample_data = EmptyFrame
    /\ response = NoReply
    /\ log = <<>>
    /\ attribute_count = DEFAULT_ATTRIBUTE_COUNT
    /\ taxonomy_attributes = {}

\* load_profiling_node: an exception of load_profiling_json or parse_profiling_stats
\* leaves the node and ends the run
LoadProfilingFails ==
    /\ pc = "load_profiling"
    /\ pc' = "FAILED"
    /\ UNCHANGED <<attribute_count, taxonomy_attributes,
                   max_iterations, profiling_stats, sample_data, priority_attributes,
                   attributes_to_process, current_attribute, iteration_count,
                   candidate_rules, validation_results, validated_rules, errors,
                   agent_sample_data, response, log>>

\* a loader for which missing sample data ends the run
AfterLoadHalting(records) ==
    IF records = <<>> THEN "FAILED" ELSE "select_priority_attributes"

\* lines 47-53 and the graph edge that leaves load_profiling: a failure to
\* load the sample is caught, and the edge is unconditional
AfterLoad(records) == "select_priority_attributes"

\* load_profiling_node
LoadProfilingNode ==
    /\ pc = "load_profiling"
    /\ \E profile \in Profiles, taxonomy \in Taxonomies, records \in SampleRecords :
        /\ profiling_stats' = profile
        /\ sample_data' = records
        /\ taxonomy_attributes' = taxonomy
        /\ priority_attributes' =
                get_taxonomy_filtered_attributes(profile, taxonomy, attribute_count)
        /\ log' = log
                \o (IF records = <<>> THEN <<LogLine("no sample data loaded", None)>> ELSE <<>>)
                \o (IF FilteredMatchedFrom(profile, taxonomy, 1, 0, attribute_count) = <<>>
                    THEN <<LogLine("No taxonomy matches found", None)>> ELSE <<>>)
        /\ pc' = AfterLoad(records)
    /\ UNCHANGED <<attribute_count, max_iterations, attributes_to_process, current_attribute,
                   iteration_count, candidate_rules, validation_results,
                   validated_rules, errors, agent_sample_data, response>>

\* select_priority_attributes_node
SelectPriorityAttributesNode ==
    /\ pc = "select_priority_attributes"
    /\ LET validated_attrs == SelectValidatedAttrs(priority_attributes, profiling_stats)
       IN  /\ attributes_to_process' = validated_attrs
           /\ current_attribute' = IF validated_attrs # <<>> THEN validated_attrs[1] ELSE None
           /\ log' = log
                \o (IF ValidatedFrom(priority_attributes, profiling_stats, 1) = <<>>
                    THEN <<LogLine("No taxonomy-matched attributes found", None)>> ELSE <<>>)
    /\ iteration_count' = 0
    /\ pc' = "derive_rules"
    /\ UNCHANGED <<attribute_count, taxonomy_attributes,
                   max_iterations, profiling_stats, sample_data, priority_attributes,
                   candidate_rules, validation_results, validated_rules, errors,
                   agent_sample_data, response>>

\* a controller that stops the run when the proposer call raised
AfterDeriveHalting(reply) ==
    IF reply.kind = "invoke_raises" THEN "FAILED" ELSE "validate_rules"

\* the graph edge that leaves derive_rules: it is unconditional, whatever the
\* proposer's reply was
AfterDerive(reply) == "validate_rules"

\* what derive_rules_for_attribute and _parse_rules_from_response print when
\* they swallow a failure (lines 98, 118 and 124 of rule_derivation_agent.py)
DerivationPrints(reply, attribute_name) ==
    CASE reply.kind = "invoke_raises" ->
            <<LogLine("Error deriving rules for", attribute_name)>>
      [] reply.kind = "no_array" ->
            <<LogLine("No valid JSON array found for", attribute_name)>>
      [] reply.kind = "bad_json" ->
            <<LogLine("JSON parse error for", attribute_name)>>
      [] OTHER -> <<>>

\* a state key without a reducer: the returned value takes the old one's place
overwrite(left, right) == right

\* operator.add, the reducer of AgentState.candidate_rules
add(left, right) == left \o right

\* derive_rules_node, the proposer answering with one of the given replies
DeriveRulesWith(replies) ==
    /\ pc = "derive_rules"
    /\ IF current_attribute = None
       THEN /\ errors' = Append(errors, ErrorLine("No attribute to process", None))
            /\ response' = NoReply
            /\ pc' = AfterDerive(NoReply)
            /\ UNCHANGED <<candidate_rules, log>>
       ELSE IF StatsIndex(profiling_stats, current_attribute) = 0
       THEN /\ errors' = Append(errors, ErrorLine("No stats for", current_attribute))
            /\ response' = NoReply
            /\ pc' = AfterDerive(NoReply)
            /\ log' = Append(log, LogLine("Deriving rules for", current_attribute))
            /\ UNCHANGED candidate_rules
       ELSE \E reply \in replies :
            /\ response' = reply
            /\ pc' = AfterDerive(reply)
            /\ log' = Append(log, LogLine("Deriving rules for", current_attribute))
                        \o DerivationPrints(reply, current_attribute)
            /\ IF reply.kind = "init_error"
               THEN /\ errors' = Append(errors, ErrorLine("Error deriving rules for",
                                                           current_attribute))
                    /\ UNCHANGED candidate_rules
               ELSE /\ candidate_rules' =
                            add(candidate_rules,
                                derive_rules_for_attribute(reply, current_attribute))
                    /\ UNCHANGED errors
    /\ UNCHANGED <<attribute_count, taxonomy_attributes,
                   max_iterations, profiling_stats, sample_data, priority_attributes,
                   attributes_to_process, current_attribute, iteration_count,
                   validation_results, validated_rules, agent_sample_data>>

\* derive_rules_node
DeriveRulesNode == DeriveRulesWith(Replies)

\* a node that never moves on from the current attribute
NextAttributeStaying(attrs_to_process, current_attr) == current_attr

\* lines 254-259 of validate_rules_node: the attribute after the current one
NextAttribute(attrs_to_process, current_attr) ==
    LET current_idx == IF current_attr # None THEN IndexOf(attrs_to_process, current_attr) - 1
                       ELSE -1
    IN  IF current_idx + 1 < Len(attrs_to_process)
        THEN attrs_to_process[current_idx + 2]
        ELSE None

\* an edge that stops only when the counter equals the cap
should_process_at_cap_only(current_attr, count, cap) ==
    IF current_attr = None THEN "complete"
    ELSE IF count = cap THEN "complete"
    ELSE "continue"

\* an edge that lets one attribute more through than the cap allows
should_process_past_cap(current_attr, count, cap) ==
    IF current_attr = None THEN "complete"
    ELSE IF count > cap THEN "complete"
    ELSE "continue"

\* an edge that looks at the queue only and never at the iteration cap
should_process_ignoring_cap(current_attr, count, cap) ==
    IF current_attr = None THEN "complete" ELSE "continue"

\* should_process_more_attributes
should_process_more_attributes(current_attr, count, cap) ==
    IF current_attr = None THEN "complete"
    ELSE IF count >= cap THEN "complete"
    ELSE "continue"

\* line 28 of edges.py: whether the edge prints "Reached iteration limit"
ReachedIterationLimit(current_attr, count, cap) ==
    current_attr # None /\ count >= cap

\* the rules of validate_rules_node lines 238-241
CurrentRules(rules, current_attr) ==
    SelectSeq(rules, LAMBDA r : r.attribute_name = current_attr)

\* validate_rules_node followed by the conditional edge that leaves it
ValidateRulesNode ==
    /\ pc = "validate_rules"
    /\ LET next_attr == NextAttribute(attributes_to_process, current_attribute)
           sample_df == DataFrameOf(sample_data)
           current_rules == CurrentRules(candidate_rules, current_attribute)
           route == should_process_more_attributes(next_attr, iteration_count + 1,
                                                   max_iterations)
       IN  /\ IF sample_data = <<>>
              THEN UNCHANGED <<validation_results, agent_sample_data>>
              ELSE /\ agent_sample_data' = sample_df
                   /\ validation_results' = validation_results
                            \o validate_all_rules(current_rules, sample_df)
           /\ current_attribute' = next_attr
           /\ iteration_count' = iteration_count + 1
           /\ log' = log
                \o <<LogLine("Validating rules for", current_attribute)>>
                \o (IF ReachedIterationLimit(next_attr, iteration_count + 1, max_iterations)
                    THEN <<LogLine("Reached iteration limit", None)>> ELSE <<>>)
           /\ pc' = IF route = "continue" THEN "derive_rules" ELSE "refine_rules"
    /\ response' = NoReply
    /\ UNCHANGED <<attribute_count, taxonomy_attributes,
                   max_iterations, profiling_stats, sample_data, priority_attributes,
                   attributes_to_process, candidate_rules, validated_rules, errors>>

\* refine_rules_node
RefineRulesNode ==
    /\ pc = "refine_rules"
    /\ validated_rules' = RefineRules(candidate_rules, validation_results)
    /\ pc' = "format_output"
    /\ UNCHANGED <<attribute_count, taxonomy_attributes,
                   max_iterations, profiling_stats, sample_data, priority_attributes,
                   attributes_to_process, current_attribute, iteration_count,
                   candidate_rules, validation_results, errors, agent_sample_data,
                   response, log>>

\* format_output_node, then END
FormatOutputNode ==
    /\ pc = "format_output"
    /\ pc' = "END"
    /\ UNCHANGED <<attribute_count, taxonomy_attributes,
                   max_iterations, profiling_stats, sample_data, priority_attributes,
                   attributes_to_process, current_attribute, iteration_count,
                   candidate_rules, validation_results, validated_rules, errors,
                   agent_sample_data, response, log>>

Next ==
    \/ LoadProfilingFails
    \/ LoadProfilingNode
    \/ SelectPriorityAttributesNode
    \/ DeriveRulesNode
    \/ ValidateRulesNode
    \/ RefineRulesNode
    \/ FormatOutputNode

Spec == Init /\ [][Next]_vars

\* the graph runs every node it reaches: no step is left waiting
FairSpec == Spec /\ WF_vars(Next)

(***************************************************************************)
(* Properties of the workflow controller.                                  *)
(***************************************************************************)
Logged(ev, attr) == \E i \in 1..Len(log) : log[i] = LogLine(ev, attr)

LoopLeft == pc \in {"refine_rules", "format_output", "END"}

\* C1: the controller never loops past iteration_count = max_iterations: in
\* every reachable state iteration_count <= max_iterations, no Deriving step
\* starts once iteration_count has reached the cap, and the "Reached
\* iteration limit" marker is emitted exactly when the loop is left with a
\* current_attribute that is not None.
C1_NeverLoopsPastCap ==
    /\ iteration_count <= max_iterations
    /\ (pc = "derive_rules" => iteration_count < max_iterations)
    /\ (LoopLeft => (Logged("Reached iteration limit", None) <=> current_attribute # None))
    /\ (~LoopLeft => ~Logged("Reached iteration limit", None))

\* the attribute that follows the first occurrence of current_attr, or None
Following(attrs_to_process, current_attr) ==
    LET hits == {i \in 1..Len(attrs_to_process) : attrs_to_process[i] = current_attr}
    IN  IF hits = {} THEN None
        ELSE LET first == CHOOSE i \in hits : \A j \in hits : i <= j
             IN  IF first < Len(attrs_to_process) THEN attrs_to_process[first + 1] ELSE None

\* C2: every Validating step advances current_attribute to the attribute that
\* follows it in attributes_to_process (None if it was the last), and the
\* controller goes back to Deriving if and only if that next attribute exists
\* and iteration_count has not reached max_iterations; otherwise it goes to
\* Refining.
C2_AdvanceThenRoute ==
    [][pc = "validate_rules" =>
        /\ current_attribute' = Following(attributes_to_process, current_attribute)
        /\ IF current_attribute' # None /\ iteration_count' < max_iterations
           THEN pc' = "derive_rules"
           ELSE pc' = "refine_rules"]_vars

\* a Validating step that looped back to the second attribute of the queue
C2_LoopedBack ==
    /\ pc = "derive_rules"
    /\ iteration_count = 1
    /\ Len(attributes_to_process) >= 2
    /\ current_attribute = attributes_to_process[2]

Min2(a, b) == IF a < b THEN a ELSE b

EveryQueuedAttributeProcessed ==
    \A i \in 1..Min2(Len(attributes_to_process), max_iterations) :
        /\ Logged("Deriving rules for", attributes_to_process[i])
        /\ Logged("Validating rules for", attributes_to_process[i])

\* C3: a proposer call that raises for one attribute does not keep the other
\* attributes from being processed: once the loop is entered, the run reaches
\* END, and by then every queued attribute within the iteration cap has had
\* its Deriving and its Validating step, whichever proposer calls raised.
C3_RaiseDoesNotStopRun ==
    (pc = "derive_rules") ~> (pc = "END" /\ EveryQueuedAttributeProcessed)

\* a completed run in which the proposer call of the first attribute raised
\* and the second attribute was still derived and validated
C3_RaisedThenContinued ==
    /\ pc = "END"
    /\ Len(attributes_to_process) >= 2
    /\ Logged("Error deriving rules for", attributes_to_process[1])
    /\ Logged("Deriving rules for", attributes_to_process[2])
    /\ Logged("Validating rules for", attributes_to_process[2])

AdapterFailureKinds == {"invoke_raises", "no_array", "bad_json"}

\* C4: a Deriving step whose proposer call raises or returns unparseable text
\* appends one entry to errors and leaves candidate_rules unchanged.
C4_AdapterFailureRecorded ==
    [][(pc = "derive_rules" /\ response'.kind \in AdapterFailureKinds) =>
        /\ Len(errors') = Len(errors) + 1
        /\ candidate_rules' = candidate_rules]_vars

Degraded ==
    \/ sample_data = <<>>
    \/ Logged("No taxonomy-matched attributes found", None)
    \/ \E i \in 1..Len(log) :
            log[i].ev \in {"Error deriving rules for", "No valid JSON array found for",
                           "JSON parse error for"}

\* C5: the final state carries a non-empty errors list whenever degradation
\* occurred during the run (sample data missing, selection fell back to the
\* first-N path, or a per-item failure happened).
C5_DegradationLeavesErrors ==
    (pc = "END" /\ Degraded) => errors # <<>>

(***************************************************************************)
(* The validation engine on its own: a RuleValidationAgent built on a      *)
(* sample relation, and validate_all_rules applied to a list of rules.     *)
(***************************************************************************)
\* a DQRule of the given type on the attribute "sku"
EngineRule(rule_type, rule_expression, rule_expression_python) ==
    [rule_id |-> <<"DQ", rule_type, rule_expression_python>>,
     attribute_name |-> "sku",
     rule_category |-> "Validity",
     rule_type |-> rule_type,
     rule_expression |-> rule_expression,
     rule_expression_python |-> rule_expression_python,
     severity |-> "Medium",
     threshold_percent |-> DefaultThresholdPercent,
     derived_from |-> <<"profiling analysis">>,
     confidence_score |-> DefaultConfidenceScore,
     sample_valid_values |-> <<>>]

\* one rule for each branch of _execute_python_rule, and custom rules whose
\* script returns an odd frame, raises, or returns no frame
EngineRules ==
    {EngineRule("NOT_NULL", <<"sku", "IS", "NOT", "NULL">>, ""),
     EngineRule("NOT_EMPTY", <<"sku", "<>", "''">>, ""),
     EngineRule("VALUE_SET", <<"sku", "IN", "(", "'A'", ")">>, ""),
     [EngineRule("VALUE_SET", <<"sku", "is", "listed">>, "listed")
        EXCEPT !.sample_valid_values = <<"A", "B">>],
     EngineRule("RANGE", <<"sku", "BETWEEN", "6", "AND", "800">>, ""),
     EngineRule("RANGE", <<"sku", ">=", "6">>, "lower"),
     EngineRule("RANGE", <<"sku", "<=", "800">>, "upper"),
     EngineRule("RANGE", <<"sku", "in", "range">>, "unbounded"),
     EngineRule("PRIMARY_KEY", <<"sku", "IS", "UNIQUE">>, ""),
     EngineRule("FORMAT_PATTERN", <<"sku", "MATCHES", "'^[A-Z]+$'">>, ""),
     EngineRule("LENGTH", <<"LENGTH", "(", "sku", ")", "<=", "0">>, ""),
     EngineRule("DATA_TYPE", <<"sku", "IS", "numeric">>, ""),
     EngineRule("BUSINESS_RULE", <<"sku", "validation">>, "pd.concat([df, df])"),
     EngineRule("BUSINESS_RULE", <<"sku", "validation">>, "df.T"),
     EngineRule("BUSINESS_RULE", <<"sku", "validation">>, "len(df)")}

\* the cells a sample column may hold: NaN, a text, a number, a list
SampleCells == {CNull, CStr("A"), CNum(7), CList}

\* a relation of the single column "sku" holding the given cells
ColumnOf(cells) == Frame({"sku"}, [i \in 1..Len(cells) |-> [sku |-> cells[i]]])

\* sample columns with numbers around the bounds 6 and 800 and a text, with
\* listed, unlisted and missing values, and with a repeated value
ExampleFrames ==
    {ColumnOf(<<CNum(5), CNum(6), CNum(800), CNum(801), CStr("abc")>>),
     ColumnOf(<<CStr("A"), CStr("C"), CNull>>),
     ColumnOf(<<CStr("x1"), CStr("x1"), CStr("x2")>>)}

\* sample relations of one column and up to MaxRows rows: the column is the
\* rules' attribute "sku" or another one, and pd.DataFrame() has no column
SampleFrames ==
    {EmptyFrame} \cup ExampleFrames \cup
    {Frame({c}, [i \in 1..Len(cells) |-> (c :> cells[i])]) :
        c \in {"sku", "price"}, cells \in SeqsUpTo(SampleCells, MaxRows)}

ValInit ==
    /\ pc = "validate_all_rules"
    /\ agent_sample_data \in SampleFrames
    /\ candidate_rules \in SeqsUpTo(EngineRules, MaxRulesPerCall)
    /\ validation_results = <<>>
    /\ max_iterations = 0
    /\ profiling_stats = <<>>
    /\ sample_data = <<>>
    /\ priority_attributes = <<>>
    /\ attributes_to_process = <<>>
    /\ current_attribute = None
    /\ iteration_count = 0
    /\ validated_rules = <<>>
    /\ errors = <<>>
    /\ response = NoReply
    /\ log = <<>>
    /\ attribute_count = DEFAULT_ATTRIBUTE_COUNT
    /\ taxonomy_attributes = {}

\* RuleValidationAgent(agent_sample_data).validate_all_rules(candidate_rules)
ValidateAllRules ==
    /\ pc = "validate_all_rules"
    /\ validation_results' = validate_all_rules(candidate_rules, agent_sample_data)
    /\ pc' = "validated"
    /\ UNCHANGED <<attribute_count, taxonomy_attributes,
                   max_iterations, profiling_stats, sample_data, priority_attributes,
                   attributes_to_process, current_attribute, iteration_count,
                   candidate_rules, validated_rules, errors, agent_sample_data,
                   response, log>>

ValNext == ValidateAllRules

ValSpec == ValInit /\ [][ValNext]_vars

(***************************************************************************)
(* Properties of the validation engine.                                    *)
(***************************************************************************)
Validated == pc = "validated"

OneResultPerRule ==
    /\ Len(validation_results) = Len(candidate_rules)
    /\ \A i \in 1..Len(candidate_rules) :
            validation_results[i].rule_id = candidate_rules[i].rule_id

\* C6: validate_rule yields one ValidationResult per rule, carrying the rule's
\* id; when the rule's attribute is not a column of the sample relation the
\* result has pass_rate 100, fail_count 0 and a single note in
\* sample_failures, whatever the rule type.
C6_AbsentAttributePasses ==
    Validated =>
        /\ OneResultPerRule
        /\ \A i \in 1..Len(candidate_rules) :
                candidate_rules[i].attribute_name \notin agent_sample_data.columns =>
                    /\ validation_results[i].pass_rate = 10000
                    /\ validation_results[i].fail_count = 0
                    /\ Len(validation_results[i].sample_failures) = 1
                    /\ validation_results[i].sample_failures[1].k = "note"

\* two rules of different types validated on a relation that has rows but
\* lacks their attribute
C6_AbsentAttributeValidated ==
    /\ Validated
    /\ Len(candidate_rules) = 2
    /\ candidate_rules[1].rule_type = "PRIMARY_KEY"
    /\ candidate_rules[2].rule_type = "BUSINESS_RULE"
    /\ "sku" \notin agent_sample_data.columns
    /\ "price" \in agent_sample_data.columns
    /\ Len(agent_sample_data.rows) = MaxRows
    /\ validation_results[1].pass_count = MaxRows

\* C7: for an empty sample relation every ValidationResult has pass_rate 100;
\* more generally pass_rate is pass_count / (pass_count + fail_count) * 100,
\* or 100 when pass_count + fail_count is 0.
C7_EmptySamplePasses ==
    Validated =>
        \A i \in 1..Len(validation_results) :
            LET r == validation_results[i]
            IN  /\ agent_sample_data.rows = <<>> => r.pass_rate = 10000
                /\ r.pass_rate = IF r.pass_count + r.fail_count = 0 THEN 10000
                                 ELSE RoundDiv(r.pass_count * 10000,
                                               r.pass_count + r.fail_count)

\* whether the rule-type branch of the rule raises on the relation
BranchRaises(rule, df) ==
    rule.attribute_name \in df.columns /\ ExecuteBranch(rule, df).raised

\* C8: an exception raised while executing a rule, in any rule-type branch,
\* becomes a ValidationResult with pass_count 0, fail_count 0 and the error
\* text in sample_failures, and validate_all_rules still returns one result
\* for every rule, in input order.
C8_BranchExceptionReported ==
    Validated =>
        /\ OneResultPerRule
        /\ \A i \in 1..Len(candidate_rules) :
                BranchRaises(candidate_rules[i], agent_sample_data) =>
                    /\ validation_results[i].pass_count = 0
                    /\ validation_results[i].fail_count = 0
                    /\ Len(validation_results[i].sample_failures) = 1
                    /\ validation_results[i].sample_failures[1].k = "error"

(***************************************************************************)
(* The refiner on its own: refine_rules_node applied to a candidate list   *)
(* and a list of validation results, then applied again to its own output. *)
(***************************************************************************)
RefinerRule(id, threshold_percent, severity) ==
    [EngineRule("NOT_NULL", <<"sku", "IS", "NOT", "NULL">>, "") EXCEPT
        !.rule_id = <<"DQ", id>>,
        !.threshold_percent = threshold_percent,
        !.severity = severity]

RefinerRules ==
    {RefinerRule(id, t, s) : id \in {"A", "B"}, t \in {0, DefaultThresholdPercent},
                             s \in {"High", "Low"}}

\* pass rates a ValidationResult may carry, in hundredths of a percent: all
\* pass, 99.96, 66.67, 50, and the -100 of a custom rule that returns every
\* row twice
PassRates == {10000, 9996, 6667, 5000, -10000}

RefinerResult(id, pass_rate) ==
    [rule_id |-> <<"DQ", id>>, pass_count |-> 0, fail_count |-> 0,
     pass_rate |-> pass_rate, sample_failures |-> <<>>]

\* result lists: none or one result for each id, or the two results of two
\* validated rules that share the id A
RefinerResults ==
    LET of(id) == {<<>>} \cup {<<RefinerResult(id, p)>> : p \in PassRates}
        twice(id) == {<<RefinerResult(id, p), RefinerResult(id, q)>> :
                        p \in {10000, 5000}, q \in {10000, 5000}}
    IN  {a \o b : a \in of("A") \cup twice("A"), b \in of("B")}

RefInit ==
    /\ pc = "refine_rules"
    /\ candidate_rules \in SeqsUpTo(RefinerRules, MaxCandidates)
    /\ validation_results \in RefinerResults
    /\ validated_rules = <<>>
    /\ max_iterations = 0
    /\ profiling_stats = <<>>
    /\ sample_data = <<>>
    /\ priority_attributes = <<>>
    /\ attributes_to_process = <<>>
    /\ current_attribute = None
    /\ iteration_count = 0
    /\ errors = <<>>
    /\ agent_sample_data = EmptyFrame
    /\ response = NoReply
    /\ log = <<>>
    /\ attribute_count = DEFAULT_ATTRIBUTE_COUNT
    /\ taxonomy_attributes = {}

\* the refiner run a second time, on its own output and the same results
RefineAgain ==
    /\ pc = "format_output"
    /\ validated_rules' = RefineRules(validated_rules, validation_results)
    /\ pc' = "refined_twice"
    /\ UNCHANGED <<attribute_count, taxonomy_attributes,
                   max_iterations, profiling_stats, sample_data, priority_attributes,
                   attributes_to_process, current_attribute, iteration_count,
                   candidate_rules, validation_results, errors, agent_sample_data,
                   response, log>>

RefNext ==
    \/ RefineRulesNode
    \/ RefineAgain

RefSpec == RefInit /\ [][RefNext]_vars

(***************************************************************************)
(* Properties of the refiner.                                              *)
(***************************************************************************)
\* the positions of the candidates that are the first of their rule_id
Firsts ==
    {i \in 1..Len(candidate_rules) :
        \A j \in 1..(i - 1) : candidate_rules[j].rule_id # candidate_rules[i].rule_id}

Rank(i) == Cardinality({j \in Firsts : j <= i})

\* the same rule, whatever the refiner did to its threshold and its derived_from
SameRule(a, b) ==
    [a EXCEPT !.threshold_percent = 0, !.derived_from = <<>>]
        = [b EXCEPT !.threshold_percent = 0, !.derived_from = <<>>]

\* C9: the refiner deduplicates by rule_id with first-seen-wins: its output
\* holds each rule_id of the candidate list once, in order of first
\* appearance, and the rule kept for an id is the first candidate with that
\* id; later duplicates are dropped, never merged.
C9_FirstSeenWins ==
    pc = "format_output" =>
        /\ Len(validated_rules) = Cardinality(Firsts)
        /\ \A i \in Firsts : SameRule(validated_rules[Rank(i)], candidate_rules[i])

\* three candidates refined, the third repeating the id of the first with
\* another severity
C9_DuplicateDropped ==
    /\ pc = "format_output"
    /\ Len(candidate_rules) = 3
    /\ candidate_rules[3].rule_id = candidate_rules[1].rule_id
    /\ candidate_rules[2].rule_id # candidate_rules[1].rule_id
    /\ candidate_rules[3].severity # candidate_rules[1].severity
    /\ Len(validated_rules) = 2
    /\ validated_rules[1].severity = candidate_rules[1].severity

\* C10: the refiner is idempotent: run a second time on its own output with
\* the same validation results, it yields the same rule list (same ids, same
\* threshold_percent, same derived_from), thresholds of 0 and very small
\* failure rates included.
C10_RefinerIdempotent ==
    [][pc = "format_output" =>
        /\ Len(validated_rules') = Len(validated_rules)
        /\ \A i \in 1..Len(validated_rules) :
                /\ validated_rules'[i].rule_id = validated_rules[i].rule_id
                /\ validated_rules'[i].threshold_percent = validated_rules[i].threshold_percent
                /\ validated_rules'[i].derived_from = validated_rules[i].derived_from]_vars

\* whether the validation results hold a result for the rule id
HasResult(rule_id) ==
    \E j \in 1..Len(validation_results) : validation_results[j].rule_id = rule_id

\* actualFailRate of a rule id, in hundredths of a percent: 100 - passRate of
\* its result (the last one listed for the id)
FailRate(rule_id) ==
    LET hits == {j \in 1..Len(validation_results) : validation_results[j].rule_id = rule_id}
        last == CHOOSE j \in hits : \A k \in hits : k <= j
    IN  10000 - validation_results[last].pass_rate

\* actualFailRate > thresholdPercent * 1.5
RaiseCase(rule) ==
    HasResult(rule.rule_id) /\ 2 * FailRate(rule.rule_id) > 3 * rule.threshold_percent

\* a provenance note was appended to the derived_from of before
NoteAppended(after, before) ==
    /\ Len(after.derived_from) = Len(before.derived_from) + 1
    /\ SubSeq(after.derived_from, 1, Len(before.derived_from)) = before.derived_from

\* C11 as stated: in the raise case the refiner outputs the rule with
\* thresholdPercent = min(actualFailRate * 1.1, 100), exactly, and a
\* provenance note appended to derivedFrom.  (Both sides in thousandths of a
\* percent.)
C11_RaisedToExactProduct ==
    pc = "format_output" =>
        \A i \in Firsts :
            RaiseCase(candidate_rules[i]) =>
                /\ 10 * validated_rules[Rank(i)].threshold_percent
                        = Min2(11 * FailRate(candidate_rules[i].rule_id),
                               10 * MaxThresholdPercent)
                /\ NoteAppended(validated_rules[Rank(i)], candidate_rules[i])

\* C11 as amended: in the raise case the refiner outputs the rule with
\* thresholdPercent = min(round(actualFailRate * 1.1, 1), 100): the product
\* rounded to one decimal place, capped at 100, with a provenance note
\* appended to derivedFrom.
C11_RaisedToRoundedProduct ==
    pc = "format_output" =>
        \A i \in Firsts :
            RaiseCase(candidate_rules[i]) =>
                LET after == validated_rules[Rank(i)].threshold_percent
                    product == 11 * FailRate(candidate_rules[i].rule_id)
                IN  /\ after % 10 = 0
                    /\ after <= MaxThresholdPercent
                    /\ IF product >= 10 * MaxThresholdPercent
                       THEN after = MaxThresholdPercent
                       ELSE 10 * after - product < 50 /\ product - 10 * after < 50
                    /\ NoteAppended(validated_rules[Rank(i)], candidate_rules[i])

\* two rules raised: one to 36.7 from a failure rate of 33.33 (the product
\* 36.663 rounded), one capped at 100 from a failure rate of 200
C11_RaisedAndCapped ==
    /\ pc = "format_output"
    /\ Len(validated_rules) = 2
    /\ HasResult(validated_rules[1].rule_id)
    /\ HasResult(validated_rules[2].rule_id)
    /\ FailRate(validated_rules[1].rule_id) = 3333
    /\ validated_rules[1].threshold_percent = 3670
    /\ FailRate(validated_rules[2].rule_id) = 20000
    /\ validated_rules[2].threshold_percent = MaxThresholdPercent

\* not the raise case, and 0 < actualFailRate < thresholdPercent * 0.5
TightenCase(rule) ==
    /\ HasResult(rule.rule_id)
    /\ ~RaiseCase(rule)
    /\ FailRate(rule.rule_id) > 0
    /\ 2 * FailRate(rule.rule_id) < rule.threshold_percent

\* C12: for a rule with a known ValidationResult that is not in the raise
\* case, if 0 < actualFailRate < thresholdPercent * 0.5 the refiner step of
\* the workflow tightens thresholdPercent to max(actualFailRate * 1.5, 0.1).
\* (Both sides in thousandths of a percent.)
C12_TightenedToObservedRate ==
    pc = "format_output" =>
        \A i \in Firsts :
            TightenCase(candidate_rules[i]) =>
                10 * validated_rules[Rank(i)].threshold_percent
                    = Max(15 * FailRate(candidate_rules[i].rule_id), 100)

\* C13: the refiner leaves a rule completely unmodified when the rule has no
\* matching ValidationResult, and when it has one but neither the raise nor
\* the tighten condition holds; and it never changes the rules of the input
\* candidate list.
C13_PassThroughUnmodified ==
    [][pc = "refine_rules" =>
        /\ candidate_rules' = candidate_rules
        /\ \A i \in Firsts :
                (\/ ~HasResult(candidate_rules[i].rule_id)
                 \/ ~RaiseCase(candidate_rules[i]) /\ ~TightenCase(candidate_rules[i]))
                    => validated_rules'[Rank(i)] = candidate_rules[i]]_vars

\* a rule without a result and a rule whose result shows no failure at all,
\* both passed through
C13_PassedThrough ==
    /\ pc = "format_output"
    /\ Len(candidate_rules) = 2
    /\ HasResult(candidate_rules[1].rule_id)
    /\ FailRate(candidate_rules[1].rule_id) = 0
    /\ candidate_rules[1].threshold_percent = 0
    /\ ~HasResult(candidate_rules[2].rule_id)
    /\ candidate_rules[2].rule_id # candidate_rules[1].rule_id
    /\ validated_rules = candidate_rules

(***************************************************************************)
(* The rule proposer adapter on its own: derive_rules_for_attribute        *)
(* applied to one reply of the proposer.                                   *)
(***************************************************************************)
AdapterBase == [RawRule EXCEPT !.rule_type = JStr("NOT_NULL")]

\* values the proposer may write for threshold_percent: null, out-of-range
\* numbers, an in-range number, numeric text, other text, a JSON list
RawThresholds ==
    {JNull, JNum(-5000), JNum(15000), JNum(250), JStr("150"), JStr("2.5"), JStr("abc"),
     JOther}

\* values the proposer may write for confidence_score
RawConfidences ==
    {JNull, JNum(150), JNum(-10), JNum(90), JStr("0.9"), JStr("7"), JStr("high"), JOther}

\* rule objects of a reply: well-formed ones, ones with odd numeric fields, and
\* ones whose id, category or type is no text
AdapterObjects ==
    {AdapterBase}
        \cup {[AdapterBase EXCEPT !.threshold_percent = v] : v \in RawThresholds}
        \cup {[AdapterBase EXCEPT !.confidence_score = v] : v \in RawConfidences}
        \cup {[AdapterBase EXCEPT !.rule_type = JOther],
              [AdapterBase EXCEPT !.rule_id = JOther],
              [AdapterBase EXCEPT !.rule_category = JNull]}

AdapterReplies ==
    {Reply(k, <<>>) : k \in {"invoke_raises", "no_array", "bad_json"}}
        \cup {Reply("array", a) : a \in SeqsUpTo(AdapterObjects, MaxRulesPerCall)}

AdInit ==
    /\ pc = "derive_rules_for_attribute"
    /\ response \in AdapterReplies
    /\ current_attribute \in {"sku", "price"}
    /\ candidate_rules = <<>>
    /\ validation_results = <<>>
    /\ validated_rules = <<>>
    /\ max_iterations = 0
    /\ profiling_stats = <<>>
    /\ sample_data = <<>>
    /\ priority_attributes = <<>>
    /\ attributes_to_process = <<>>
    /\ iteration_count = 0
    /\ errors = <<>>
    /\ agent_sample_data = EmptyFrame
    /\ log = <<>>
    /\ attribute_count = DEFAULT_ATTRIBUTE_COUNT
    /\ taxonomy_attributes = {}

\* RuleDerivationAgent.derive_rules_for_attribute on the reply of the proposer
DeriveRulesForAttribute ==
    /\ pc = "derive_rules_for_attribute"
    /\ candidate_rules' = derive_rules_for_attribute(response, current_attribute)
    /\ pc' = "derived"
    /\ UNCHANGED <<attribute_count, taxonomy_attributes,
                   max_iterations, profiling_stats, sample_data, priority_attributes,
                   attributes_to_process, current_attribute, iteration_count,
                   validation_results, validated_rules, errors, agent_sample_data,
                   response, log>>

AdNext == DeriveRulesForAttribute

AdSpec == AdInit /\ [][AdNext]_vars

(***************************************************************************)
(* Properties of the rule proposer adapter.                                *)
(***************************************************************************)
\* the positions of the reply's array whose element normalizes and constructs
Built ==
    {i \in 1..Len(response.array) :
        BuildRule(response.array[i], current_attribute, i - 1).ok}

\* the position in the adapter's result of the rule built from element i
PlaceOf(i) == Cardinality({j \in Built : j <= i})

\* thresholdPercent expected for an upstream value, in hundredths of a percent:
\* numbers clamped into 0..100, numeric text converted and clamped, other text
\* and null replaced by 5.0
ExpectedThreshold(v) ==
    CASE v = JNum(-5000) -> 0
      [] v = JNum(15000) -> 10000
      [] v = JNum(250) -> 250
      [] v = JStr("150") -> 10000
      [] v = JStr("2.5") -> 250
      [] OTHER -> 500

\* confidenceScore expected for an upstream value, in hundredths
ExpectedConfidence(v) ==
    CASE v = JNum(150) -> 100
      [] v = JNum(-10) -> 0
      [] v = JNum(90) -> 90
      [] v = JStr("0.9") -> 90
      [] v = JStr("7") -> 100
      [] OTHER -> 80

\* C14: every rule the adapter returns has 0 <= thresholdPercent <= 100 and
\* 0 <= confidenceScore <= 1, also when the upstream object carries
\* out-of-range numbers, numeric text, other text or null for these fields:
\* out-of-range values are clamped, unparseable text falls back to 5.0 and 0.8.
C14_NumericFieldsInBounds ==
    pc = "derived" =>
        /\ \A k \in 1..Len(candidate_rules) :
                /\ 0 <= candidate_rules[k].threshold_percent
                /\ candidate_rules[k].threshold_percent <= 10000
                /\ 0 <= candidate_rules[k].confidence_score
                /\ candidate_rules[k].confidence_score <= 100
        /\ \A i \in Built :
                /\ candidate_rules[PlaceOf(i)].threshold_percent
                        = ExpectedThreshold(response.array[i].threshold_percent)
                /\ candidate_rules[PlaceOf(i)].confidence_score
                        = ExpectedConfidence(response.array[i].confidence_score)

\* a reply with a threshold of 150 and a confidence of "high", normalized to
\* 100 and 0.8
C14_ClampedAndDefaulted ==
    /\ pc = "derived"
    /\ Len(response.array) = 2
    /\ response.array[1].threshold_percent = JNum(15000)
    /\ response.array[2].confidence_score = JStr("high")
    /\ Len(candidate_rules) = 2
    /\ candidate_rules[1].threshold_percent = 10000
    /\ candidate_rules[2].confidence_score = 80

\* C15: one malformed rule never aborts the batch: the adapter returns exactly
\* the elements of the array that normalize and construct, in their original
\* relative order, dropping each failing element on its own, and it returns
\* the empty list when the call raises or no array parses.
C15_MalformedDroppedIndividually ==
    pc = "derived" =>
        /\ Len(candidate_rules) = Cardinality(Built)
        /\ \A i \in Built :
                candidate_rules[PlaceOf(i)]
                    = BuildRule(response.array[i], current_attribute, i - 1).rule
        /\ response.kind # "array" => candidate_rules = <<>>

\* a reply whose first element cannot be built and whose second can: the
\* second is returned, numbered by its place in the reply
C15_SecondSurvivesFirst ==
    /\ pc = "derived"
    /\ Len(response.array) = 2
    /\ 1 \notin Built
    /\ 2 \in Built
    /\ Len(candidate_rules) = 1
    /\ candidate_rules[1].rule_id[Len(candidate_rules[1].rule_id)] = "002"

(***************************************************************************)
(* Properties of the rule-type branches of the validation engine.          *)
(***************************************************************************)
\* the cells a result lists as failing, in order (at most SampleFailureCap)
FailingCells(result) ==
    [k \in 1..Len(result.sample_failures) |-> result.sample_failures[k].cell]

\* the cells of column "sku" at which the test holds, in row order
CellsWhere(Test(_)) ==
    LET cells == [k \in 1..Len(agent_sample_data.rows) |-> agent_sample_data.rows[k].sku]
    IN  SelectSeq(cells, Test)

\* a number, or text that reads as a number
IsNumericCell(cell) == cell.t = "num" \/ (cell.t = "str" /\ IsNumeral(cell.s))

NumberOf(cell) == IF cell.t = "num" THEN cell.n ELSE NumeralValue[cell.s]

\* out of [6, 800], or present and not numeric
OutOfRangeOrNonNumeric(cell) ==
    \/ IsNumericCell(cell) /\ (NumberOf(cell) < 6 \/ NumberOf(cell) > 800)
    \/ cell.t = "str" /\ ~IsNumericCell(cell)

\* the results of the rules of the given type that were validated on a
\* relation with the column "sku"
ResultsOfType(rule_type) ==
    {i \in 1..Len(candidate_rules) :
        /\ pc = "validated"
        /\ "sku" \in agent_sample_data.columns
        /\ candidate_rules[i].rule_type = rule_type}

\* the rule expression has a BETWEEN fragment
HasBetween(rule) ==
    \E k \in 1..Len(rule.rule_expression) : Upper(rule.rule_expression[k]) = "BETWEEN"

\* C16: for a RANGE rule with the bounds of "BETWEEN 6 AND 800" a row fails
\* iff its value is numeric and outside [6, 800] or is non-numeric: over
\* [5, 6, 800, 801, "abc"] the failing subset is {5, 801, "abc"}.
C16_NonNumericOutOfRange ==
    \A i \in {r \in ResultsOfType("RANGE") : HasBetween(candidate_rules[r])} :
        /\ FailingCells(validation_results[i]) = CellsWhere(OutOfRangeOrNonNumeric)
        /\ validation_results[i].fail_count = Len(CellsWhere(OutOfRangeOrNonNumeric))

\* present (not null) and not one of the listed values
PresentNonMember(cell, valid_values) ==
    /\ cell.t # "null"
    /\ ~(cell.t = "str" /\ \E k \in 1..Len(valid_values) : valid_values[k] = cell.s)

\* the result of lines 80-86, which reports an exception and no outcome
IsErrorResult(result) ==
    \E k \in 1..Len(result.sample_failures) : result.sample_failures[k].k = "error"

\* C17: for a VALUE_SET rule with a non-empty valid-value set a row fails iff
\* its value is present and not a member of the set, and null rows never
\* fail: with the values A, B over the rows [A, C, null] fail_count is 1 and
\* pass_count is 2.
C17_PresentNonMembersFail ==
    \A i \in ResultsOfType("VALUE_SET") :
        LET valid_values == ExtractValueSet(candidate_rules[i])
            Fails(cell) == PresentNonMember(cell, valid_values)
        IN  valid_values # <<>> /\ ~IsErrorResult(validation_results[i]) =>
                /\ FailingCells(validation_results[i]) = CellsWhere(Fails)
                /\ validation_results[i].fail_count = Len(CellsWhere(Fails))
                /\ validation_results[i].pass_count =
                        Len(agent_sample_data.rows) - Len(CellsWhere(Fails))

\* the cells of column "sku" that occur in more than one row
OccursTwice(cell) ==
    Cardinality({k \in 1..Len(agent_sample_data.rows) :
                    agent_sample_data.rows[k].sku = cell}) > 1

\* C18: for a PRIMARY_KEY rule the failing subset is exactly the rows whose
\* value occurs more than once in the sample, every occurrence of each
\* duplicated value, and no row with a unique value fails: over
\* ["x1", "x1", "x2"] the failing subset has 2 rows.
C18_EveryDuplicateOccurrenceFails ==
    \A i \in ResultsOfType("PRIMARY_KEY") :
        ~IsErrorResult(validation_results[i]) =>
            /\ FailingCells(validation_results[i]) = CellsWhere(OccursTwice)
            /\ validation_results[i].fail_count = Len(CellsWhere(OccursTwice))

(***************************************************************************)
(* The attribute prioritizer on its own: DataProfilerAgent with a          *)
(* configured attribute_count, then select_priority_attributes_node on     *)
(* what it returned.                                                       *)
(***************************************************************************)
\* profiling JSON files of up to four attributes
PrioProfiles ==
    Profiles \cup
    {<<Stats("sku", "ID", 0), Stats("price", "Empty", 0), Stats("colour", "Categorical", 20),
       Stats("weight", "Numeric", 0)>>,
     <<Stats("weight", "Numeric", 100), Stats("colour", "Categorical", 0),
       Stats("price", "Numeric", 50), Stats("sku", "ID", 0)>>}

\* DISPLAY NAME sets of the taxonomy schema
PrioTaxonomies == Taxonomies \cup {{"SKU", "Price", "Colour"}, {"weight"}}

\* values of DataProfilerAgent(attribute_count=...)
AttributeCounts == {-1, 0, 1, 2, DEFAULT_ATTRIBUTE_COUNT}

PrioInit ==
    /\ pc = "get_taxonomy_filtered_attributes"
    /\ max_iterations = 0
    /\ profiling_stats \in PrioProfiles
    /\ sample_data = <<>>
    /\ priority_attributes = <<>>
    /\ attributes_to_process = <<>>
    /\ current_attribute = None
    /\ iteration_count = 0
    /\ candidate_rules = <<>>
    /\ validation_results = <<>>
    /\ validated_rules = <<>>
    /\ errors = <<>>
    /\ agent_sample_data = EmptyFrame
    /\ response = NoReply
    /\ log = <<>>
    /\ attribute_count \in AttributeCounts
    /\ taxonomy_attributes \in PrioTaxonomies

\* DataProfilerAgent.get_taxonomy_filtered_attributes, whose result
\* get_dataset_context stores as dataset_context['priority_attributes']
GetTaxonomyFilteredAttributes ==
    /\ pc = "get_taxonomy_filtered_attributes"
    /\ priority_attributes' =
            get_taxonomy_filtered_attributes(profiling_stats, taxonomy_attributes,
                                             attribute_count)
    /\ log' = log
            \o (IF FilteredMatchedFrom(profiling_stats, taxonomy_attributes, 1, 0,
                                       attribute_count) = <<>>
                THEN <<LogLine("No taxonomy matches found", None)>> ELSE <<>>)
    /\ pc' = "select_priority_attributes"
    /\ UNCHANGED <<attribute_count, taxonomy_attributes,
                   max_iterations, profiling_stats, sample_data, attributes_to_process,
                   current_attribute, iteration_count, candidate_rules,
                   validation_results, validated_rules, errors, agent_sample_data,
                   response>>

PrioNext == GetTaxonomyFilteredAttributes \/ SelectPriorityAttributesNode

PrioSpec == PrioInit /\ [][PrioNext]_vars

(***************************************************************************)
(* Properties of the attribute prioritizer.                                *)
(***************************************************************************)
\* the attribute names of the profiling data, in the raw data's order
RawNames == [k \in 1..Len(profiling_stats) |-> profiling_stats[k].attribute_name]

\* neither datatype Empty nor 100% missing
Usable(name) ==
    \E k \in 1..Len(profiling_stats) :
        /\ profiling_stats[k].attribute_name = name
        /\ profiling_stats[k].datatype # "Empty"
        /\ profiling_stats[k].missing_percentage < 100

\* on the allow-list, whatever the case of the letters
AllowListed(name) == \E t \in taxonomy_attributes : Lower(t) = Lower(name)

UsableMatch(name) == AllowListed(name) /\ Usable(name)

\* the first n names of a list, all of them when n is 0 or negative
TruncatedTo(names, n) ==
    IF n > 0 THEN SubSeq(names, 1, Min2(n, Len(names))) ELSE names

Prioritized == pc \in {"select_priority_attributes", "derive_rules"} /\ profiling_stats # <<>>

\* C19: when the allow-list yields at least one usable match, the prioritizer
\* returns exactly the allow-listed attributes that are neither datatype
\* Empty nor 100% missing, in the raw data's order, truncated to the
\* configured maximum count; a maximum of 0 or a negative one is unbounded.
C19_UsableMatchesInRawOrder ==
    Prioritized /\ SelectSeq(RawNames, UsableMatch) # <<>> =>
        /\ priority_attributes =
                TruncatedTo(SelectSeq(RawNames, UsableMatch), attribute_count)
        /\ pc = "derive_rules" =>
                attributes_to_process =
                    TruncatedTo(SelectSeq(RawNames, UsableMatch), attribute_count)

\* an unusable match was dropped, an unmatched attribute left out, and the
\* two usable matches were both returned under the maximum 0
C19_UnboundedKeepsAllMatches ==
    /\ pc = "derive_rules"
    /\ attribute_count = 0
    /\ \E k \in 1..Len(RawNames) : AllowListed(RawNames[k]) /\ ~Usable(RawNames[k])
    /\ \E k \in 1..Len(RawNames) : ~AllowListed(RawNames[k]) /\ Usable(RawNames[k])
    /\ Len(SelectSeq(RawNames, UsableMatch)) = 2
    /\ attributes_to_process = SelectSeq(RawNames, UsableMatch)

\* C20: if the allow-list is unavailable or yields zero matches, the
\* prioritizer falls back to the first N non-empty, non-fully-missing
\* attributes in raw order, N being the configured maximum count and 0 or a
\* negative N meaning unbounded; the fallback is taken only then and emits a
\* distinguishable diagnostic.
C20_FallbackFirstUsable ==
    Prioritized =>
        /\ SelectSeq(RawNames, UsableMatch) = <<>> =>
                /\ priority_attributes = TruncatedTo(SelectSeq(RawNames, Usable), attribute_count)
                /\ Logged("No taxonomy matches found", None)
        /\ Logged("No taxonomy matches found", None) =>
                SelectSeq(RawNames, UsableMatch) = <<>>

(***************************************************************************)
(* Further properties of the workflow controller.                          *)
(***************************************************************************)
\* C21: rule_id is globally unique within a run: in every reachable state no
\* two entries of candidate_rules share a rule_id, whatever ids the proposer
\* supplies and whatever ids the adapter synthesizes.
C21_RuleIdsUnique ==
    \A i \in 1..Len(candidate_rules) : \A j \in 1..Len(candidate_rules) :
        i # j => candidate_rules[i].rule_id # candidate_rules[j].rule_id

\* C22: current_attribute = None signals completion: no Deriving or
\* Validating step ever executes while current_attribute is None, and when
\* attribute selection yields an empty queue the controller reaches Refining
\* with iteration_count still 0, errors unchanged, and candidate_rules and
\* validation_results empty.
C22_NoneSignalsCompletion ==
    /\ pc \in {"derive_rules", "validate_rules"} => current_attribute # None
    /\ (LoopLeft /\ attributes_to_process = <<>>) =>
            /\ iteration_count = 0
            /\ errors = <<>>
            /\ candidate_rules = <<>>
            /\ validation_results = <<>>

\* C23: if no sample data is loaded at all, every Validating step skips rule
\* execution entirely (validation_results stays unchanged) and still
\* advances current_attribute to the next queued attribute and increments
\* iteration_count by one, and it routes as it would with sample data.
C23_NoSampleStillAdvances ==
    [][(pc = "validate_rules" /\ sample_data = <<>>) =>
        /\ validation_results' = validation_results
        /\ validation_results' = <<>>
        /\ agent_sample_data' = agent_sample_data
        /\ current_attribute' = Following(attributes_to_process, current_attribute)
        /\ iteration_count' = iteration_count + 1
        /\ pc' = IF current_attribute' # None /\ iteration_count' < max_iterations
                 THEN "derive_rules" ELSE "refine_rules"]_vars

\* a run without sample data that derived rules for the first attribute,
\* executed none of them and went on to the second attribute
C23_SkippedAndAdvanced ==
    /\ sample_data = <<>>
    /\ pc = "derive_rules"
    /\ iteration_count = 1
    /\ Len(attributes_to_process) >= 2
    /\ current_attribute = attributes_to_process[2]
    /\ candidate_rules # <<>>
    /\ validation_results = <<>>

\* no attribute was selected, derived or validated and no rule is output
NothingProcessed ==
    /\ attributes_to_process = <<>>
    /\ candidate_rules = <<>>
    /\ validation_results = <<>>
    /\ validated_rules = <<>>
    /\ \A i \in 1..Len(log) :
            log[i].ev \notin {"Deriving rules for", "Validating rules for"}

\* C24: a missing or unparseable profiling source is fatal: the run aborts in
\* load_profiling before any attribute is selected, derived or validated and
\* no rules are output; a missing or unreadable sample-data source is not
\* fatal: the run still proceeds through selection, the derive/validate loop
\* and Refining to END.
C24_ProfilingFatalSampleNot ==
    /\ [](pc = "FAILED" => NothingProcessed /\ profiling_stats = <<>>)
    /\ [][pc # "FAILED" /\ (pc' = "FAILED" => pc = "load_profiling")]_vars
    /\ (pc = "select_priority_attributes" /\ sample_data = <<>>)
            ~> (pc = "END" /\ sample_data = <<>>
                    /\ \E i \in 1..Len(log) : log[i].ev = "Validating rules for")

\* a run without sample data that completed with rules in its output
C24_CompletedWithoutSample ==
    /\ pc = "END"
    /\ sample_data = <<>>
    /\ Logged("no sample data loaded", None)
    /\ validated_rules # <<>>

(***************************************************************************)
(* Further properties of the validation engine.                            *)
(***************************************************************************)
\* C25: for a RANGE rule without a BETWEEN fragment the lower and the upper
\* bound are parsed independently from the >= and <= fragments and each
\* extracted bound is applied on its own: a rule with only a lower bound
\* fails the rows below it, a rule with only an upper bound fails the rows
\* above it, and only a rule with no extractable bound yields an empty
\* failing set.
C25_EachBoundAppliedAlone ==
    \A i \in {r \in ResultsOfType("RANGE") : ~HasBetween(candidate_rules[r])} :
        LET bounds == ExtractRange(candidate_rules[i])
            Fails(cell) ==
                /\ ~ToNumeric(cell).nan
                /\ \/ bounds.has_min /\ ToNumeric(cell).n < bounds.min_val
                   \/ bounds.has_max /\ ToNumeric(cell).n > bounds.max_val
        IN  /\ FailingCells(validation_results[i]) = CellsWhere(Fails)
            /\ validation_results[i].fail_count = Len(CellsWhere(Fails))

\* the list before is a prefix of the list after
IsPrefix(before, after) ==
    Len(before) <= Len(after) /\ SubSeq(after, 1, Len(before)) = before

\* C26: candidate_rules and validation_results are append-only accumulators:
\* across every step of a run the value before the step is a prefix of the
\* value after it, only Deriving steps extend candidate_rules and only
\* Validating steps extend validation_results.
C26_AppendOnlyAccumulators ==
    [][/\ IsPrefix(candidate_rules, candidate_rules')
       /\ IsPrefix(validation_results, validation_results')
       /\ candidate_rules' # candidate_rules => pc = "derive_rules"
       /\ validation_results' # validation_results => pc = "validate_rules"]_vars

\* both accumulators were extended a second time, by the second attribute
C26_ExtendedTwice ==
    /\ pc = "END"
    /\ iteration_count = 2
    /\ \E i \in 1..Len(candidate_rules) : \E j \in (i + 1)..Len(candidate_rules) :
            /\ candidate_rules[i].attribute_name = attributes_to_process[1]
            /\ candidate_rules[j].attribute_name = attributes_to_process[2]
    /\ Len(validation_results) = Len(candidate_rules)
    /\ \A i \in 1..Len(validation_results) :
            validation_results[i].rule_id = candidate_rules[i].rule_id

\* the Deriving and Validating lines of the log, in order
StepLog ==
    SelectSeq(log, LAMBDA line : line.ev \in {"Deriving rules for", "Validating rules for"})

\* Deriving then Validating for each of the first k queued attributes
AlternatingSteps(k) ==
    [i \in 1..(2 * k) |->
        IF i % 2 = 1
        THEN LogLine("Deriving rules for", attributes_to_process[(i + 1) \div 2])
        ELSE LogLine("Validating rules for", attributes_to_process[i \div 2])]

Selected == pc \notin {"load_profiling", "select_priority_attributes", "FAILED"}

\* C27: for a queue of n >= 1 distinct attributes and a cap m >= 1 the
\* controller runs Deriving then Validating for exactly the first min(n, m)
\* attributes, in queue order, each exactly once and strictly alternating;
\* attributes beyond position m are never derived, and attributes_to_process
\* is never modified after selection.
C27_FirstMinOfQueueAndCap ==
    /\ []((Selected /\ Len(attributes_to_process) >= 1 /\ max_iterations >= 1) =>
            LET k == Min2(Len(attributes_to_process), max_iterations)
            IN  /\ IsPrefix(StepLog, AlternatingSteps(k))
                /\ pc = "derive_rules" => Len(StepLog) % 2 = 0 /\ Len(StepLog) < 2 * k
                /\ pc = "validate_rules" => Len(StepLog) % 2 = 1
                /\ LoopLeft => StepLog = AlternatingSteps(k))
    /\ [][Selected => attributes_to_process' = attributes_to_process]_vars

\* a completed run over a queue of three attributes under the cap 2: the
\* third attribute was never derived
C27_StoppedAtCap ==
    /\ pc = "END"
    /\ Len(attributes_to_process) = 3
    /\ max_iterations = 2
    /\ StepLog = AlternatingSteps(2)
    /\ ~Logged("Deriving rules for", attributes_to_process[3])

(***************************************************************************)
(* The derive/validate loop on its own: the graph from derive_rules on,    *)
(* entered with any queue, repeated and unknown attribute names included.  *)
(***************************************************************************)
\* queues of attribute names; "ghost" has no profiling statistics
LoopQueues ==
    {<<>>, <<"sku">>, <<"ghost">>, <<"sku", "sku">>, <<"sku", "price", "sku">>,
     <<"price", "ghost", "sku">>, <<"sku", "price", "colour">>}

LoopInit ==
    /\ pc = "derive_rules"
    /\ max_iterations \in 0..MaxIterationsCap
    /\ profiling_stats =
            <<Stats("sku", "ID", 0), Stats("price", "Numeric", 0),
              Stats("colour", "Categorical", 0)>>
    /\ sample_data \in SampleRecords
    /\ priority_attributes = <<>>
    /\ attributes_to_process \in LoopQueues
    /\ current_attribute =
            IF attributes_to_process # <<>> THEN attributes_to_process[1] ELSE None
    /\ iteration_count = 0
    /\ candidate_rules = <<>>
    /\ validation_results = <<>>
    /\ validated_rules = <<>>
    /\ errors = <<>>
    /\ agent_sample_data = EmptyFrame
    /\ response = NoReply
    /\ log = <<>>
    /\ attribute_count = DEFAULT_ATTRIBUTE_COUNT
    /\ taxonomy_attributes = {}

\* what the proposer answers in a run of the loop alone
LoopReplies ==
    {Reply("init_error", <<>>), Reply("invoke_raises", <<>>),
     Reply("array", <<RawObjectList[1]>>),
     Reply("array", <<RawObjectList[2], RawObjectList[2]>>)}

LoopDeriveRulesNode == DeriveRulesWith(LoopReplies)

LoopNext ==
    \/ LoopDeriveRulesNode
    \/ ValidateRulesNode
    \/ RefineRulesNode
    \/ FormatOutputNode

\* the graph runs every node it reaches
LoopSpec == LoopInit /\ [][LoopNext]_vars /\ WF_vars(LoopNext)

\* C28: every run whose profile load succeeds and whose collaborator calls
\* return reaches Refining exactly once and then END: for every queue,
\* repeated or unknown attribute names included, and every cap the
\* derive/validate loop runs a finite number of iterations, and Refining is
\* never entered before the loop has been left.
C28_LoopEndsRefinesOnce ==
    /\ (pc = "derive_rules") ~> (pc = "refine_rules")
    /\ (pc = "refine_rules") ~> (pc = "END")
    /\ [](iteration_count <= Max(max_iterations, 1))
    /\ [][/\ pc' = "refine_rules" =>
                /\ pc = "validate_rules"
                /\ current_attribute' = None \/ iteration_count' >= max_iterations
          /\ pc = "refine_rules" => pc' = "format_output"
          /\ pc \in {"format_output", "END"} => pc' \in {"format_output", "END"}]_vars

\* a completed run over a queue that names the same attribute at its first
\* and third place: the loop went round until the cap and then ended
C28_RepeatedQueueEnded ==
    /\ pc = "END"
    /\ attributes_to_process = <<"sku", "price", "sku">>
    /\ max_iterations = MaxIterationsCap
    /\ iteration_count = MaxIterationsCap
    /\ current_attribute # None

\* C29: every ValidationResult that validate_rule produces without an error
\* has 0 <= fail_count <= number of sample rows, pass_count = number of
\* sample rows - fail_count >= 0 and 0 <= pass_rate <= 100, for every rule
\* type, custom types whose script evaluates to any relation included.
C29_CountsWithinSample ==
    Validated =>
        \A i \in 1..Len(validation_results) :
            ~IsErrorResult(validation_results[i]) =>
                /\ validation_results[i].fail_count >= 0
                /\ validation_results[i].fail_count <= Len(agent_sample_data.rows)
                /\ validation_results[i].pass_count =
                        Len(agent_sample_data.rows) - validation_results[i].fail_count
                /\ validation_results[i].pass_count >= 0
                /\ validation_results[i].pass_rate >= 0
                /\ validation_results[i].pass_rate <= 10000

(***************************************************************************)
(* Further properties of the refiner.                                      *)
(***************************************************************************)
\* the positions of the results listed for a rule id
ResultsFor(rule_id) ==
    {j \in 1..Len(validation_results) : validation_results[j].rule_id = rule_id}

\* several candidates share the rule id and each of them has its result
ValidatedDuplicates(rule_id) ==
    /\ Cardinality(ResultsFor(rule_id)) >= 2
    /\ Cardinality(ResultsFor(rule_id)) =
            Cardinality({j \in 1..Len(candidate_rules) :
                            candidate_rules[j].rule_id = rule_id})

\* C30: when candidate_rules holds several rules with the same rule_id and
\* each was validated, the threshold adjustment of the rule the refiner
\* keeps (the first-seen one) is computed from the ValidationResult of that
\* kept rule, the first result of the id, not from the result of a later
\* dropped duplicate.
C30_KeptRuleUsesOwnResult ==
    pc = "format_output" =>
        \A i \in Firsts :
            ValidatedDuplicates(candidate_rules[i].rule_id) =>
                LET hits == ResultsFor(candidate_rules[i].rule_id)
                    own == CHOOSE j \in hits : \A k \in hits : j <= k
                    own_fail_rate == 10000 - validation_results[own].pass_rate
                IN  validated_rules[Rank(i)].threshold_percent =
                        IF 2 * own_fail_rate > 3 * candidate_rules[i].threshold_percent
                        THEN Min2(10 * RoundDiv(11 * own_fail_rate, 100), MaxThresholdPercent)
                        ELSE candidate_rules[i].threshold_percent

====
